---- MODULE Spec2Model ----
(***************************************************************************)
(* A state-machine model of the WhatsApp Web bot: the login wait of        *)
(* SessionManager, the scan cycle, deduplication cache and sender of       *)
(* ChatService, the parser MessageFilter, the dispatcher CommandHandler    *)
(* and the poll loop of run_bot / main.                                    *)
(*                                                                         *)
(* Texts are sequences of one-character strings, so that the parser works  *)
(* on characters as str.startswith, str.strip and str.split do.  Optional  *)
(* values are NoneV (the empty tuple) or Some(x) (a one-element tuple).    *)
(* The two accented letters of the quota apology are written unaccented.   *)
(***************************************************************************)
EXTENDS Integers, Sequences, FiniteSets, TLC

NoneV == <<>>

Some(x) == <<x>>

EmptyStr == <<>>

DefaultPrefix ==
  <<"/","b","o","t">>

PongText ==
  <<"p","o","n","g">>

PingName ==
  <<"p","i","n","g">>

HelpName ==
  <<"h","e","l","p">>

HelpHeader ==
  <<"A","v","a","i","l","a","b","l","e"," ","c","o","m","m","a","n","d","s",":","\n">>

UnknownHead ==
  <<"U","n","k","n","o","w","n"," ","c","o","m","m","a","n","d"," ","'">>

UnknownMid ==
  <<"'","."," ","T","r","y"," ","'">>

UnknownTail ==
  <<" ","h","e","l","p","'",".">>

NoKeyText ==
  <<"E","r","r","o","r",":"," ","A","I"," ","c","l","i","e","n","t"," ","n","o","t"," ",
    "c","o","n","f","i","g","u","r","e","d"," ","(","m","i","s","s","i","n","g"," ","A",
    "P","I"," ","k","e","y",")",".">>

NoResponseText ==
  <<"N","o"," ","r","e","s","p","o","n","s","e"," ","f","r","o","m"," ","A","I",".">>

QuotaText ==
  <<"L","o"," ","s","i","e","n","t","o",","," ","h","e"," ","a","l","c","a","n","z","a",
    "d","o"," ","m","i"," ","l","i","m","i","t","e"," ","d","e"," ","m","e","n","s","a",
    "j","e","s"," ","p","o","r"," ","a","h","o","r","a","."," ","P","o","r"," ","f","a",
    "v","o","r",","," ","i","n","t","e","n","t","a","l","o"," ","d","e"," ","n","u","e",
    "v","o"," ","e","n"," ","u","n","o","s"," ","s","e","g","u","n","d","o","s",".">>

SorryHead ==
  <<"S","o","r","r","y",","," ","I"," ","e","n","c","o","u","n","t","e","r","e","d"," ",
    "a","n"," ","e","r","r","o","r"," ","p","r","o","c","e","s","s","i","n","g"," ","t",
    "h","a","t",":"," ">>

RateLimitMark ==
  <<"4","2","9">>

(***************************************************************************)
(* Python string primitives used by the parser.                            *)
(***************************************************************************)
Whitespace == {" ", "\t", "\n", "\r"}

UpperLetters ==
  <<"A","B","C","D","E","F","G","H","I","J","K","L","M","N","O","P","Q","R","S","T","U",
    "V","W","X","Y","Z">>

LowerLetters ==
  <<"a","b","c","d","e","f","g","h","i","j","k","l","m","n","o","p","q","r","s","t","u",
    "v","w","x","y","z">>

LowerChar(c) ==
  IF \E i \in 1..Len(UpperLetters) : UpperLetters[i] = c
  THEN LowerLetters[CHOOSE i \in 1..Len(UpperLetters) : UpperLetters[i] = c]
  ELSE c

\* A lower() that leaves the text as it is.
NoLower(s) == s

Lower(s) == [i \in 1..Len(s) |-> LowerChar(s[i])]

StartsWith(s, p) == Len(s) >= Len(p) /\ SubSeq(s, 1, Len(p)) = p

Contains(s, p) ==
  \E i \in 1..(Len(s) - Len(p) + 1) : SubSeq(s, i, i + Len(p) - 1) = p

RECURSIVE LStrip(_)
LStrip(s) ==
  IF s # <<>> /\ Head(s) \in Whitespace THEN LStrip(Tail(s)) ELSE s

RECURSIVE RStrip(_)
RStrip(s) ==
  IF s # <<>> /\ s[Len(s)] \in Whitespace THEN RStrip(SubSeq(s, 1, Len(s) - 1)) ELSE s

Strip(s) == RStrip(LStrip(s))

\* str.split() with no separator: the maximal runs of non-whitespace characters.
RECURSIVE SplitFrom(_, _, _)
SplitFrom(s, cur, acc) ==
  IF s = <<>> THEN (IF cur = <<>> THEN acc ELSE Append(acc, cur))
  ELSE IF Head(s) \in Whitespace
       THEN SplitFrom(Tail(s), <<>>, IF cur = <<>> THEN acc ELSE Append(acc, cur))
       ELSE SplitFrom(Tail(s), Append(cur, Head(s)), acc)

Split(s) == SplitFrom(s, <<>>, <<>>)

(***************************************************************************)
(* MessageFilter.parse (filters.py).  A ParsedMessage keeps the three      *)
(* fields of the dataclass; the Optional result is NoneV or Some(record).  *)
(***************************************************************************)
ParsedCommand(name, args) == [name |-> name, args |-> args]

ParsedMessage(is_command, command, query) ==
  [is_command |-> is_command, command |-> command, query |-> query]

parse(prefix, text) ==
  IF ~StartsWith(text, prefix) THEN NoneV
  ELSE LET payload == Strip(SubSeq(text, Len(prefix) + 1, Len(text)))
       IN  IF payload = <<>> THEN NoneV
           ELSE LET parts == Split(payload)
                    first_word == parts[1]
                IN  IF StartsWith(first_word, <<"-">>)
                    THEN Some(ParsedMessage(TRUE,
                           Some(ParsedCommand(Lower(Tail(first_word)), Tail(parts))),
                           NoneV))
                    ELSE Some(ParsedMessage(FALSE, NoneV, Some(payload)))

(***************************************************************************)
(* CommandHandler (handlers.py): the static table and handle.              *)
(***************************************************************************)
CommandNames == {PingName}

CommandReply(name) == PongText

\* Lexicographic order on texts, as sorted() orders str values.
CharOrder ==
  <<"\n"," ","'","-",".","/","0","1","2","3","4","5","6","7","8","9",":",
    "A","B","C","D","E","F","G","H","I","J","K","L","M","N","O","P","Q","R","S","T","U",
    "V","W","X","Y","Z",
    "a","b","c","d","e","f","g","h","i","j","k","l","m","n","o","p","q","r","s","t","u",
    "v","w","x","y","z">>

CharRank(c) ==
  IF \E i \in 1..Len(CharOrder) : CharOrder[i] = c
  THEN CHOOSE i \in 1..Len(CharOrder) : CharOrder[i] = c
  ELSE Len(CharOrder) + 1

RECURSIVE StrLess(_, _)
StrLess(a, b) ==
  IF b = <<>> THEN FALSE
  ELSE IF a = <<>> THEN TRUE
  ELSE IF Head(a) = Head(b) THEN StrLess(Tail(a), Tail(b))
  ELSE CharRank(Head(a)) < CharRank(Head(b))

RECURSIVE Sorted(_)
Sorted(S) ==
  IF S = {} THEN <<>>
  ELSE LET m == CHOOSE x \in S : \A y \in S \ {x} : StrLess(x, y)
       IN  <<m>> \o Sorted(S \ {m})

RECURSIVE Join(_, _)
Join(sep, items) ==
  IF items = <<>> THEN <<>>
  ELSE IF Len(items) = 1 THEN items[1]
  ELSE items[1] \o sep \o Join(sep, Tail(items))

\* A help text listing the table in its own order, with help put last.
HelpInTableOrder(prefix) ==
  HelpHeader \o <<"-", " ">> \o prefix \o <<" ">> \o PingName \o <<"\n">>
             \o <<"-", " ">> \o prefix \o <<" ">> \o HelpName

_help_message(prefix) ==
  LET commands == Sorted(CommandNames \cup {HelpName})
      items == Join(<<"\n">>,
                 [i \in 1..Len(commands) |-> <<"-", " ">> \o prefix \o <<" ">> \o commands[i]])
  IN  HelpHeader \o items

handle(prefix, command) ==
  IF command.name = HelpName THEN _help_message(prefix)
  ELSE IF command.name \in CommandNames THEN CommandReply(command.name)
  ELSE UnknownHead \o command.name \o UnknownMid \o prefix \o UnknownTail

(***************************************************************************)
(* Configuration and program constants.                                    *)
(***************************************************************************)
command_prefix == DefaultPrefix

\* SessionManager defaults and probe timeouts, in seconds.
login_timeout == 120

session_poll_interval == 2

LoggedInProbeTimeout == 3

QrProbeTimeout == 1

\* Exit status of the interpreter when KeyboardInterrupt is not handled.
UnhandledInterruptStatus == 130

(***************************************************************************)
(* Bounds of the model and the environment's alphabet.                     *)
(***************************************************************************)
MaxArrivals == 2

MaxFocus == 1

LiveMaxArrivals == 1

MaxTokens == 4

Chats == {1, 2}

NoChat == 0

\* Texts of inbound bubbles: a command and a free-form query.
InTexts ==
  { <<"/","b","o","t"," ","-","p","i","n","g">>,
    <<"/","b","o","t"," ","h","i">> }

\* Texts the completion backend returns: a plain one, none at all, and one
\* that itself starts with the command prefix.
AiReplies == { <<"o","k">>, <<>>, <<"/","b","o","t"," ","-","p","i","n","g">> }

AiErrors == { <<"4","2","9"," ","q","u","o","t","a">>, <<"b","o","o","m">> }

VARIABLES
  pc,              \* position of the single thread of control
  simulation_mode, \* BotConfig.simulation_mode
  has_api_key,     \* BotConfig.google_api_key is set
  sessionState,    \* Unknown, Awaiting, Authenticated, Failed
  elapsed,         \* seconds since _wait_for_login took its deadline
  observed,        \* which probe saw the authenticated marker last: none, poll, confirm
  ensureCalls,     \* calls of SessionManager.ensure_session made so far
  saveCalls,       \* calls of BrowserManager.save_storage_state made so far
  pending,         \* what is propagating through the finally block
  exitStatus,      \* process exit status, Running while the process lives
  exitCause,       \* why the process ended
  intrInCycle,     \* a KeyboardInterrupt was delivered in the running cycle
  lastBubble,      \* per chat: the last bubble of the conversation
  fwd,             \* per chat: times its present last bubble was forwarded
  unread,          \* chats whose row carries the unread marker
  active,          \* the chat open in the conversation pane, or NoChat
  last_seen,       \* ChatService._last_seen.get("last")
  lastRead,        \* text of the most recent successful read
  messages,        \* the bucket of the running / last scan cycle
  unread_chats,    \* the handles _collect_unread_chats returned
  idx,             \* enumerate index of the chat being processed
  faulted,         \* indexes whose processing raised in this cycle
  activeReads,     \* active-chat reads performed in this cycle
  reader,          \* who called _last_message_text: "chat" or "active"
  mi,              \* index of the message run_bot is handling
  response,        \* the response computed for that message
  aiCalled,        \* the completion backend was called for that message
  sendCalls,       \* calls of send_message made for that message
  sendOps,         \* page operations of the send_message call, in order
  sendResult,      \* what the send_message call returned: none, true, false
  unit_pc,         \* position of a direct call of parse and handle, or idle
  arg_prefix,      \* the prefix MessageFilter and CommandHandler were built with
  arg_text,        \* message.text of the message handed to parse
  ret_parsed,      \* what parse returned
  ret_reply,       \* what handle returned
  arrivals,        \* bubbles the environment has added
  focuses          \* times the user opened another chat

vars ==
  << pc, simulation_mode, has_api_key, sessionState, elapsed, observed, saveCalls,
     pending, exitStatus, exitCause, intrInCycle, lastBubble, fwd, unread, active,
     last_seen, lastRead, messages, unread_chats, idx, faulted, activeReads, reader, mi,
     response, arrivals, focuses, ensureCalls, aiCalled, sendCalls, sendOps, sendResult,
     unit_pc, arg_prefix, arg_text, ret_parsed, ret_reply >>

Running == -1

LoginPcs == {"ensure_session", "wl_check", "wl_probe", "wl_qr", "wl_sleep", "es_recheck"}

ScanPcs ==
  {"collect_unread", "chat_click", "chat_settle", "chat_wait", "chat_count",
   "chat_except", "lm_container", "lm_scroll", "lm_bubbles"}

DispatchPcs ==
  {"loop_top", "poll_return", "msg_next", "call_ai", "ai_except", "respond",
   "send_simulated", "send_input", "send_no_input", "send_type", "send_typing",
   "send_button", "send_click", "send_enter", "sleep"}

\* Positions inside the try block of run_bot.
LoopPcs == ScanPcs \cup DispatchPcs

\* Positions whose next step reads or changes the page.  The steps at the
\* other positions of the loop are local to the process, so a change of the
\* page made there is the same as that change made at the next of these.
SurfacePcs ==
  {"collect_unread", "chat_click", "lm_container", "lm_bubbles", "send_input",
   "send_button", "send_click", "send_enter"}

ChatMessage(text, from_me, src, via) ==
  [text |-> text, chat_name |-> EmptyStr, from_me |-> from_me, src |-> src, via |-> via]

Bubble(text, from_me) == [text |-> text, from_me |-> from_me]

\* The parser and the dispatcher before a direct call: nothing handed in,
\* nothing returned.
UnitIdle ==
  /\ unit_pc = "idle"
  /\ arg_prefix = command_prefix
  /\ arg_text = EmptyStr
  /\ ret_parsed = NoneV
  /\ ret_reply = EmptyStr

ProgramInit ==
  /\ pc = "ensure_session"
  /\ simulation_mode \in BOOLEAN
  /\ has_api_key \in BOOLEAN
  /\ sessionState = "Unknown"
  /\ elapsed = 0
  /\ observed = "none"
  /\ saveCalls = 0
  /\ pending = "none"
  /\ exitStatus = Running
  /\ exitCause = "none"
  /\ intrInCycle = FALSE
  /\ lastBubble = [c \in Chats |-> NoneV]
  /\ fwd = [c \in Chats |-> 0]
  /\ unread = {}
  /\ active = NoChat
  /\ last_seen = NoneV
  /\ lastRead = NoneV
  /\ messages = <<>>
  /\ unread_chats = <<>>
  /\ idx = 1
  /\ faulted = {}
  /\ activeReads = 0
  /\ reader = "chat"
  /\ mi = 1
  /\ response = EmptyStr
  /\ arrivals = 0
  /\ focuses = 0
  /\ ensureCalls = 0
  /\ aiCalled = FALSE
  /\ sendCalls = 0
  /\ sendOps = << >>
  /\ sendResult = "none"

Init == ProgramInit /\ UnitIdle

unitVars == << unit_pc, arg_prefix, arg_text, ret_parsed, ret_reply >>

sessionVars == << sessionState, elapsed, observed, ensureCalls >>

exitVars == << pending, exitStatus, exitCause, saveCalls >>

surfaceVars == << lastBubble, fwd, unread, active, arrivals, focuses >>

cacheVars == << last_seen, lastRead >>

\* What is recorded of the handling of one message: the backend call and the
\* send_message call made for it.
callVars == << aiCalled, sendCalls, sendOps, sendResult >>

\* Locals of poll_new_messages and of the loop body of run_bot.
frameVars ==
  << messages, unread_chats, idx, faulted, activeReads, reader, mi, response, callVars >>

scanVars ==
  << cacheVars, messages, unread_chats, idx, faulted, activeReads, reader, intrInCycle >>

dispatchVars == << mi, response, callVars >>

\* What no step of the running program changes: the configuration, and the
\* arguments and results of direct calls of the pure functions.
configVars == << simulation_mode, has_api_key, unitVars >>

(***************************************************************************)
(* Process termination (main.py, main and the interpreter).                *)
(***************************************************************************)
\* main: an Exception out of run_bot returns 1, a normal return gives 0; a
\* KeyboardInterrupt is no Exception and leaves main unhandled.
MainStatus(p) ==
  IF p = "exc" THEN 1 ELSE IF p = "kbi" THEN UnhandledInterruptStatus ELSE 0

Exit(p, cause) ==
  /\ pc' = "exited"
  /\ exitStatus' = MainStatus(p)
  /\ exitCause' = cause
  /\ pending' = p

(***************************************************************************)
(* SessionManager (session.py).                                            *)
(***************************************************************************)
\* ensure_session up to the call of _wait_for_login, which takes its deadline.
EnsureSession ==
  /\ pc = "ensure_session"
  /\ sessionState' = "Awaiting"
  /\ elapsed' = 0
  /\ ensureCalls' = ensureCalls + 1
  /\ pc' = "wl_check"
  /\ UNCHANGED << observed, exitVars, surfaceVars, scanVars, dispatchVars, configVars >>

\* The guard of the while loop: time.time() < deadline.
BeforeDeadline(t) == t < login_timeout

\* while time.time() < deadline ... else raise RuntimeError("Login timed out").
WaitLoginCheck ==
  /\ pc = "wl_check"
  /\ IF BeforeDeadline(elapsed)
     THEN /\ pc' = "wl_probe"
          /\ UNCHANGED << sessionState, exitVars >>
     ELSE /\ sessionState' = "Failed"
          /\ Exit("exc", "login_timeout")
          /\ UNCHANGED saveCalls
  /\ UNCHANGED << elapsed, observed, ensureCalls, surfaceVars, scanVars, dispatchVars,
                  configVars >>

\* is_logged_in inside the loop: the marker shows up d seconds into the probe
\* (d below the probe's timeout), or the probe times out.
WaitLoginProbe ==
  /\ pc = "wl_probe"
  /\ \/ \E d \in 0..(LoggedInProbeTimeout - 1) :
          /\ elapsed' = elapsed + d
          /\ observed' = "poll"
          /\ pc' = "es_recheck"
     \/ /\ elapsed' = elapsed + LoggedInProbeTimeout
        /\ pc' = "wl_qr"
        /\ UNCHANGED observed
  /\ UNCHANGED << sessionState, ensureCalls, exitVars, surfaceVars, scanVars, dispatchVars,
                  configVars >>

\* _qr_visible: the challenge is visible at once, or the probe times out.
WaitLoginQr ==
  /\ pc = "wl_qr"
  /\ \E q \in {0, QrProbeTimeout} : elapsed' = elapsed + q
  /\ pc' = "wl_sleep"
  /\ UNCHANGED << sessionState, observed, ensureCalls, exitVars, surfaceVars, scanVars,
                  dispatchVars, configVars >>

WaitLoginSleep ==
  /\ pc = "wl_sleep"
  /\ elapsed' = elapsed + session_poll_interval
  /\ pc' = "wl_check"
  /\ UNCHANGED << sessionState, observed, ensureCalls, exitVars, surfaceVars, scanVars,
                  dispatchVars, configVars >>

\* The confirming check with its condition inverted.
ConfirmedStateInverted(seen) == IF seen THEN "Failed" ELSE "Authenticated"

\* An ensure_session that returns without looking at the confirming probe.
ConfirmedStateUnchecked(seen) == "Authenticated"

\* What ensure_session does with the second is_logged_in, made after
\* _wait_for_login returned: ready, or RuntimeError("Failed to establish ...").
ConfirmedState(seen) == IF seen THEN "Authenticated" ELSE "Failed"

\* On success run_bot goes on to browser.save_storage_state() (main.py:62).
EnsureSessionConfirm ==
  /\ pc = "es_recheck"
  /\ \E seen \in BOOLEAN :
       /\ sessionState' = ConfirmedState(seen)
       /\ observed' = IF seen THEN "confirm" ELSE observed
       /\ IF sessionState' = "Authenticated"
          THEN /\ pc' = "save_initial"
               /\ saveCalls' = saveCalls + 1
               /\ elapsed' = 0
               /\ UNCHANGED << pending, exitStatus, exitCause >>
          ELSE /\ Exit("exc", "login_failed")
               /\ UNCHANGED << saveCalls, elapsed >>
  /\ UNCHANGED << ensureCalls, surfaceVars, scanVars, dispatchVars, configVars >>

\* The save after authentication returns, or raises out of run_bot.
SaveInitial ==
  /\ pc = "save_initial"
  /\ \/ /\ pc' = "loop_top"
        /\ UNCHANGED << pending, exitStatus, exitCause >>
     \/ Exit("exc", "fatal")
  /\ UNCHANGED << sessionVars, saveCalls, surfaceVars, scanVars, dispatchVars, configVars >>

(***************************************************************************)
(* Leaving the try block of run_bot (main.py:118-122).                     *)
(***************************************************************************)
\* Nothing is recorded yet of the handling of the message that comes next.
NewMessage ==
  /\ aiCalled' = FALSE
  /\ sendCalls' = 0
  /\ sendOps' = << >>
  /\ sendResult' = "none"

\* Control leaves the try block by an exception: the frames of
\* poll_new_messages and of the loop body are gone, their locals are dead.
Unwind ==
  /\ messages' = <<>>
  /\ unread_chats' = <<>>
  /\ idx' = 1
  /\ faulted' = {}
  /\ activeReads' = 0
  /\ reader' = "chat"
  /\ mi' = 1
  /\ response' = EmptyStr
  /\ NewMessage

\* A loop without the finally clause: the exception goes straight to main.
FatalNoFinally ==
  /\ Exit("exc", "fatal")
  /\ Unwind
  /\ UNCHANGED << saveCalls, intrInCycle, cacheVars >>

\* An Exception escapes the loop: the finally clause calls save_storage_state
\* with the exception in flight.
Fatal ==
  /\ pc' = "final_saving"
  /\ pending' = "exc"
  /\ saveCalls' = saveCalls + 1
  /\ Unwind
  /\ UNCHANGED << exitStatus, exitCause, intrInCycle, cacheVars >>

(***************************************************************************)
(* ChatService (chat.py): the scan cycle.                                  *)
(***************************************************************************)
\* All orders in which the unread rows may stand in the chat list.
Orderings(S) ==
  { s \in [1..Cardinality(S) -> S] : \A i, j \in 1..Cardinality(S) : i # j => s[i] # s[j] }

\* while True: poll_count += 1; messages = chat_service.poll_new_messages()
LoopTop ==
  /\ pc = "loop_top"
  /\ pc' = "collect_unread"
  /\ messages' = <<>>
  /\ unread_chats' = <<>>
  /\ idx' = 1
  /\ faulted' = {}
  /\ activeReads' = 0
  /\ reader' = "chat"
  /\ intrInCycle' = FALSE
  /\ UNCHANGED << cacheVars, sessionVars, exitVars, surfaceVars, dispatchVars, configVars >>

\* Entry of _collect_active_chat_message.
ToActiveRead ==
  /\ pc' = "lm_container"
  /\ reader' = "active"
  /\ activeReads' = activeReads + 1

\* A scan that returns at once when no chat is unread.
CollectUnreadEarlyReturn ==
  /\ pc = "collect_unread"
  /\ \E s \in Orderings(unread) : unread_chats' = s
  /\ pc' = IF unread = {} THEN "poll_return" ELSE "chat_click"
  /\ UNCHANGED << reader, activeReads, exitVars, cacheVars, messages, idx, faulted,
                  intrInCycle, dispatchVars, sessionVars, surfaceVars, configVars >>

\* _collect_unread_chats: a timeout gives [], otherwise every unread row in
\* display order; any other fault of the surface escapes poll_new_messages.
CollectUnread ==
  /\ pc = "collect_unread"
  /\ \/ /\ \E s \in Orderings(unread) : unread_chats' = s
        /\ IF unread = {}
           THEN ToActiveRead
           ELSE pc' = "chat_click" /\ UNCHANGED << reader, activeReads >>
        /\ UNCHANGED << exitVars, cacheVars, messages, idx, faulted, intrInCycle,
                        dispatchVars >>
     \/ Fatal
  /\ UNCHANGED << sessionVars, surfaceVars, configVars >>

\* Where the for loop goes on after chat i of n: the next chat, or past the
\* loop to the active-chat read.
NextChat(i, n) == [idx |-> i + 1, toActive |-> (i >= n)]

GoTo(nxt) ==
  /\ idx' = nxt.idx
  /\ IF nxt.toActive
     THEN ToActiveRead
     ELSE pc' = "chat_click" /\ UNCHANGED << reader, activeReads >>

GoNextChat == GoTo(NextChat(idx, Len(unread_chats)))

\* A try block put around the whole for loop: a fault ends the loop.
CaughtAroundLoop(i, n) == [idx |-> i, toActive |-> TRUE]

\* The try block is inside the loop body: a fault in chat i is caught at the
\* end of that iteration and the loop goes on with chat i + 1.
CaughtAtChatBoundary(i, n) == NextChat(i, n)

\* A step of the per-chat sequence raises an Exception.
ChatFault ==
  /\ pc' = "chat_except"
  /\ faulted' = faulted \cup {idx}
  /\ UNCHANGED << cacheVars, messages, unread_chats, idx, activeReads, reader, intrInCycle,
                  surfaceVars >>

\* except Exception as e: logger.error(...) at the chat boundary.
ChatExcept ==
  /\ pc = "chat_except"
  /\ GoTo(CaughtAtChatBoundary(idx, Len(unread_chats)))
  /\ UNCHANGED << cacheVars, messages, unread_chats, faulted, intrInCycle, surfaceVars,
                  sessionVars, exitVars, dispatchVars, configVars >>

\* chat.click(): the chat opens and loses its unread marker, or the click raises.
ChatClick ==
  /\ pc = "chat_click"
  /\ \/ /\ active' = unread_chats[idx]
        /\ unread' = unread \ {unread_chats[idx]}
        /\ pc' = "chat_settle"
        /\ UNCHANGED << lastBubble, fwd, arrivals, focuses, scanVars >>
     \/ ChatFault
  /\ UNCHANGED << sessionVars, exitVars, dispatchVars, configVars >>

\* page.evaluate (its faults swallowed) and time.sleep(read_timeout).
ChatSettle ==
  /\ pc = "chat_settle"
  /\ \/ pc' = "chat_wait" /\ UNCHANGED << scanVars, surfaceVars >>
     \/ ChatFault
  /\ UNCHANGED << sessionVars, exitVars, dispatchVars, configVars >>

\* wait_for_selector for a bubble: found or timed out (both go on), or raises.
ChatWait ==
  /\ pc = "chat_wait"
  /\ \/ pc' = "chat_count" /\ UNCHANGED << scanVars, surfaceVars >>
     \/ ChatFault
  /\ UNCHANGED << sessionVars, exitVars, dispatchVars, configVars >>

\* The three locator counts, then the call of _last_message_text.
ChatCount ==
  /\ pc = "chat_count"
  /\ \/ pc' = "lm_container" /\ UNCHANGED << scanVars, surfaceVars >>
     \/ ChatFault
  /\ UNCHANGED << sessionVars, exitVars, dispatchVars, configVars >>

\* _last_message_text returned None: the chat is skipped (continue), the
\* active-chat read returns to poll_new_messages.
ReadNone ==
  /\ IF reader = "chat"
     THEN GoNextChat
     ELSE pc' = "poll_return" /\ UNCHANGED << idx, reader, activeReads >>
  /\ UNCHANGED << cacheVars, messages, unread_chats, faulted, intrInCycle, surfaceVars >>

\* _last_message_text, the container: none resolves without an open chat; a
\* fault of the surface is caught by the function and gives None.
LastMessageContainer ==
  /\ pc = "lm_container"
  /\ \/ IF active = NoChat
        THEN ReadNone
        ELSE pc' = "lm_scroll" /\ UNCHANGED << scanVars, surfaceVars >>
     \/ ReadNone
  /\ UNCHANGED << sessionVars, exitVars, dispatchVars, configVars >>

\* The scroll to the end of the list: its faults are swallowed by a bare except.
LastMessageScroll ==
  /\ pc = "lm_scroll"
  /\ pc' = "lm_bubbles"
  /\ UNCHANGED << scanVars, surfaceVars, sessionVars, exitVars, dispatchVars, configVars >>

\* What _last_message_text reads off the last bubble of the open chat.
LastMessage(bubble) ==
  IF bubble = NoneV THEN NoneV
  ELSE LET text == Strip(bubble[1].text)
       IN  IF Len(text) > 1 THEN Some(<<text, bubble[1].from_me>>) ELSE NoneV

\* A deduplicator that compares with the cache but never stores the new text.
PushWithoutUpdate(cache, bucket, msg) ==
  IF cache = Some(msg.text)
  THEN [cache |-> cache, bucket |-> bucket]
  ELSE [cache |-> cache, bucket |-> Append(bucket, msg)]

\* A deduplicator that puts a new message in front of the bucket.
PushFront(cache, bucket, msg) ==
  IF cache = Some(msg.text)
  THEN [cache |-> cache, bucket |-> bucket]
  ELSE [cache |-> Some(msg.text), bucket |-> << msg >> \o bucket]

_push_if_new(cache, bucket, msg) ==
  IF cache = Some(msg.text)
  THEN [cache |-> cache, bucket |-> bucket]
  ELSE [cache |-> Some(msg.text), bucket |-> Append(bucket, msg)]

\* The bubbles are read, and a text read is handed to _push_if_new.
LastMessageBubbles ==
  /\ pc = "lm_bubbles"
  /\ \/ LET res == IF active = NoChat THEN NoneV ELSE LastMessage(lastBubble[active])
        IN  IF res = NoneV
            THEN ReadNone
            ELSE LET msg == ChatMessage(res[1][1], res[1][2], active,
                                        IF reader = "chat" THEN idx ELSE 0)
                     pushed == _push_if_new(last_seen, messages, msg)
                 IN  /\ last_seen' = pushed.cache
                     /\ messages' = pushed.bucket
                     /\ lastRead' = Some(msg.text)
                     /\ fwd' = IF pushed.bucket # messages
                               THEN [fwd EXCEPT ![active] = IF @ < 2 THEN @ + 1 ELSE @]
                               ELSE fwd
                     /\ IF reader = "chat"
                        THEN GoNextChat
                        ELSE pc' = "poll_return" /\ UNCHANGED << idx, reader, activeReads >>
                     /\ UNCHANGED << unread_chats, faulted, intrInCycle, lastBubble, unread,
                                     active, arrivals, focuses >>
     \/ ReadNone
  /\ UNCHANGED << sessionVars, exitVars, dispatchVars, configVars >>

(***************************************************************************)
(* run_bot (main.py): handling the scan result.                            *)
(***************************************************************************)
\* poll_new_messages returns; the for loop over messages starts.
PollReturn ==
  /\ pc = "poll_return"
  /\ pc' = "msg_next"
  /\ mi' = 1
  /\ UNCHANGED << response, callVars, sessionVars, exitVars, surfaceVars, scanVars,
                  configVars >>

\* for message in messages: parse; a command is answered by handle at once,
\* a query goes to call_ai; past the last message the loop sleeps.
MessageNext ==
  /\ pc = "msg_next"
  /\ NewMessage
  /\ IF mi > Len(messages)
     THEN pc' = "sleep" /\ UNCHANGED << mi, response >>
     ELSE LET parsed == parse(command_prefix, messages[mi].text)
          IN  IF parsed = NoneV
              THEN pc' = "msg_next" /\ mi' = mi + 1 /\ UNCHANGED response
              ELSE IF parsed[1].is_command /\ parsed[1].command # NoneV
              THEN /\ response' = handle(command_prefix, parsed[1].command[1])
                   /\ pc' = "respond"
                   /\ UNCHANGED mi
              ELSE pc' = "call_ai" /\ UNCHANGED << mi, response >>
  /\ UNCHANGED << sessionVars, exitVars, surfaceVars, scanVars, configVars >>

\* The query handed to call_ai: parsed.query or "".
QueryOf(text) ==
  LET parsed == parse(command_prefix, text)
  IN  IF parsed # NoneV /\ parsed[1].query # NoneV THEN parsed[1].query[1] ELSE EmptyStr

\* An except clause that answers every failure with the generic text.
AlwaysGenericText(e) == SorryHead \o e

\* The text call_ai returns when the completion raised with message e.
AiFailureText(e) == IF Contains(e, RateLimitMark) THEN QuotaText ELSE SorryHead \o e

\* call_ai: without a client the configuration error; else the completion
\* returns a text (an empty one is replaced), or it raises with message e,
\* which the except clause holds.
CallAi ==
  /\ pc = "call_ai"
  /\ IF ~has_api_key
     THEN response' = NoKeyText /\ pc' = "respond" /\ UNCHANGED aiCalled
     ELSE /\ aiCalled' = TRUE
          /\ \/ /\ \E r \in AiReplies :
                     response' = (IF r = EmptyStr THEN NoResponseText ELSE r)
                /\ pc' = "respond"
             \/ /\ \E e \in AiErrors : response' = e
                /\ pc' = "ai_except"
  /\ UNCHANGED << mi, sendCalls, sendOps, sendResult, sessionVars, exitVars, surfaceVars,
                  scanVars, configVars >>

\* except Exception as e: in call_ai; response holds str(e) on entry.
AiExcept ==
  /\ pc = "ai_except"
  /\ response' = AiFailureText(response)
  /\ pc' = "respond"
  /\ UNCHANGED << mi, callVars, sessionVars, exitVars, surfaceVars, scanVars, configVars >>

\* A send_message that goes to the page whatever the mode.
SendEntryIgnoringMode(sim) == "send_input"

\* The first test of send_message: in simulation mode it only logs.
SendEntry(sim) == IF sim THEN "send_simulated" ELSE "send_input"

\* if response: an empty response is not sent.
Truthy(r) == r # EmptyStr

\* if response: chat_service.send_message(response)
Respond ==
  /\ pc = "respond"
  /\ IF Truthy(response)
     THEN /\ pc' = SendEntry(simulation_mode)
          /\ sendCalls' = sendCalls + 1
          /\ UNCHANGED mi
     ELSE pc' = "msg_next" /\ mi' = mi + 1 /\ UNCHANGED sendCalls
  /\ UNCHANGED << response, aiCalled, sendOps, sendResult, sessionVars, exitVars,
                  surfaceVars, scanVars, configVars >>

\* A send_message that raises where it should return False.
SendRaises ==
  /\ pc \in {"send_simulated", "send_no_input"}
  /\ Fatal
  /\ UNCHANGED << sessionVars, surfaceVars, configVars >>

\* A loop that calls send_message again when it returned False.
SendFalseRetried ==
  /\ pc \in {"send_simulated", "send_no_input"}
  /\ pc' = "respond"
  /\ sendResult' = "false"
  /\ UNCHANGED << exitVars, mi, response, aiCalled, sendCalls, sendOps, scanVars,
                  sessionVars, surfaceVars, configVars >>

\* send_message cannot send (simulation mode, or the input region was not
\* found): it returns False and run_bot goes on with the next message.
SendReturnsFalse ==
  /\ pc \in {"send_simulated", "send_no_input"}
  /\ pc' = "msg_next"
  /\ mi' = mi + 1
  /\ sendResult' = "false"
  /\ UNCHANGED << exitVars, response, aiCalled, sendCalls, sendOps, scanVars, sessionVars,
                  surfaceVars, configVars >>

\* The page operation op is made by send_message and control goes on at p.
SendOp(op, p) ==
  /\ sendOps' = Append(sendOps, op)
  /\ pc' = p
  /\ UNCHANGED << exitVars, mi, response, aiCalled, sendCalls, sendResult, scanVars >>

\* wait_for_selector for the input: found (only with a chat open), timed out,
\* or another fault, which escapes the loop.
SendInput ==
  /\ pc = "send_input"
  /\ \/ active # NoChat /\ SendOp("locate_input", "send_type")
     \/ SendOp("locate_input", "send_no_input")
     \/ Fatal
  /\ UNCHANGED << sessionVars, surfaceVars, configVars >>

\* input_box.fill("")
SendFill ==
  /\ pc = "send_type"
  /\ \/ SendOp("fill", "send_typing")
     \/ Fatal
  /\ UNCHANGED << sessionVars, surfaceVars, configVars >>

\* input_box.type(text)
SendType ==
  /\ pc = "send_typing"
  /\ \/ SendOp("type", "send_button")
     \/ Fatal
  /\ UNCHANGED << sessionVars, surfaceVars, configVars >>

\* The submission op went through: the text is the last bubble of the open
\* chat, sent by the account itself; send_message returns True.
Submitted(op) ==
  /\ lastBubble' = [lastBubble EXCEPT ![active] = Some(Bubble(response, TRUE))]
  /\ fwd' = [fwd EXCEPT ![active] = 0]
  /\ sendOps' = Append(sendOps, op)
  /\ sendResult' = "true"
  /\ pc' = "msg_next"
  /\ mi' = mi + 1
  /\ UNCHANGED << exitVars, response, aiCalled, sendCalls, scanVars >>

\* wait_for_selector for the send control: found, timed out, or a fault that
\* escapes the loop.
SendButton ==
  /\ pc = "send_button"
  /\ \/ SendOp("locate_send", "send_click")
     \/ SendOp("locate_send", "send_enter")
     \/ Fatal
  /\ UNCHANGED << sessionVars, surfaceVars, configVars >>

\* send_button.click(), inside the same try block as the wait: the click goes
\* through, or it raises PlaywrightTimeoutError and the except clause takes
\* over, or it raises something else.
SendClick ==
  /\ pc = "send_click"
  /\ \/ Submitted("click")
     \/ SendOp("click", "send_enter") /\ UNCHANGED << lastBubble, fwd >>
     \/ Fatal /\ UNCHANGED << lastBubble, fwd >>
  /\ UNCHANGED << unread, active, arrivals, focuses, sessionVars, configVars >>

\* except PlaywrightTimeoutError: input_box.press("Enter").
SendEnter ==
  /\ pc = "send_enter"
  /\ \/ Submitted("press")
     \/ Fatal /\ UNCHANGED << lastBubble, fwd >>
  /\ UNCHANGED << unread, active, arrivals, focuses, sessionVars, configVars >>

\* time.sleep(config.poll_interval)
Sleep ==
  /\ pc = "sleep"
  /\ pc' = "loop_top"
  /\ UNCHANGED << sessionVars, exitVars, surfaceVars, scanVars, dispatchVars, configVars >>

(***************************************************************************)
(* The except and finally clauses of run_bot, and main.                    *)
(***************************************************************************)
\* except KeyboardInterrupt: two log lines, then finally: save_storage_state.
InterruptHandler ==
  /\ pc = "kb_handler"
  /\ pc' = "final_saving"
  /\ saveCalls' = saveCalls + 1
  /\ UNCHANGED << pending, exitStatus, exitCause, sessionVars, surfaceVars, scanVars,
                  dispatchVars, configVars >>

\* The final save returns and what was in flight goes on to main, or the save
\* itself raises.
FinalSave ==
  /\ pc = "final_saving"
  /\ \/ Exit(pending, IF pending = "exc" THEN "fatal" ELSE "interrupt")
     \/ Exit("exc", IF pending = "exc" THEN "fatal" ELSE "interrupt")
  /\ UNCHANGED << saveCalls, sessionVars, surfaceVars, scanVars, dispatchVars, configVars >>

(***************************************************************************)
(* The environment: the interrupt signal, the chats and the user.          *)
(***************************************************************************)
\* Where control goes when KeyboardInterrupt is raised at position p inside
\* the try block: the bare except around the scroll swallows it.
InterruptTarget(p) == IF p = "lm_scroll" THEN "lm_bubbles" ELSE "kb_handler"

Interrupt ==
  /\ exitStatus = Running
  /\ \/ /\ pc \in LoginPcs \cup {"save_initial"}
        /\ Exit("kbi", "interrupt")
        /\ UNCHANGED << saveCalls, scanVars, dispatchVars >>
     \/ /\ pc \in LoopPcs
        /\ pc' = InterruptTarget(pc)
        /\ intrInCycle' = TRUE
        /\ IF pc' = "kb_handler"
           THEN Unwind
           ELSE UNCHANGED frameVars
        /\ UNCHANGED << exitVars, cacheVars >>
     \/ /\ pc = "kb_handler"
        /\ pc' = "final_saving"
        /\ pending' = "kbi"
        /\ saveCalls' = saveCalls + 1
        /\ UNCHANGED << exitStatus, exitCause, scanVars, dispatchVars >>
     \/ /\ pc = "final_saving"
        /\ Exit("kbi", "interrupt")
        /\ UNCHANGED << saveCalls, scanVars, dispatchVars >>
  /\ UNCHANGED << sessionVars, surfaceVars, configVars >>

\* An inbound bubble becomes the last one of chat c; in a chat that is not
\* open it marks the chat unread.
Arrive ==
  /\ pc \in SurfacePcs
  /\ arrivals < MaxArrivals
  /\ \E c \in Chats, t \in InTexts :
       /\ lastBubble' = [lastBubble EXCEPT ![c] = Some(Bubble(t, FALSE))]
       /\ fwd' = [fwd EXCEPT ![c] = 0]
       /\ unread' = IF c # active THEN unread \cup {c} ELSE unread
  /\ arrivals' = arrivals + 1
  /\ UNCHANGED << pc, active, focuses, sessionVars, exitVars, scanVars, dispatchVars,
                  configVars >>

\* The user opens another chat in the (visible) browser window.
UserFocus ==
  /\ pc \in SurfacePcs
  /\ focuses < MaxFocus
  /\ \E c \in Chats \ {active} :
       /\ active' = c
       /\ unread' = unread \ {c}
  /\ focuses' = focuses + 1
  /\ UNCHANGED << pc, lastBubble, fwd, arrivals, sessionVars, exitVars, scanVars,
                  dispatchVars, configVars >>

Step ==
  \/ EnsureSession
  \/ WaitLoginCheck
  \/ WaitLoginProbe
  \/ WaitLoginQr
  \/ WaitLoginSleep
  \/ EnsureSessionConfirm
  \/ SaveInitial
  \/ LoopTop
  \/ CollectUnread
  \/ ChatClick
  \/ ChatSettle
  \/ ChatWait
  \/ ChatCount
  \/ ChatExcept
  \/ LastMessageContainer
  \/ LastMessageScroll
  \/ LastMessageBubbles
  \/ PollReturn
  \/ MessageNext
  \/ CallAi
  \/ AiExcept
  \/ Respond
  \/ SendReturnsFalse
  \/ SendInput
  \/ SendFill
  \/ SendType
  \/ SendButton
  \/ SendClick
  \/ SendEnter
  \/ Sleep
  \/ InterruptHandler
  \/ FinalSave

Next == Step \/ Interrupt \/ Arrive \/ UserFocus

Spec == Init /\ [][Next]_vars

(***************************************************************************)
(* Direct calls of the pure functions: MessageFilter.parse on a text, and  *)
(* CommandHandler.handle on the command it returned.                       *)
(***************************************************************************)
\* The pieces message texts are put together from.
Tokens ==
  { DefaultPrefix, <<"!">>, <<" ">>, <<"-">>, <<"a">>, <<"B">>, HelpName, PingName }

\* The texts named in the documentation of the grammar.
ExampleTexts ==
  { <<"/","b","o","t"," ","-","c","m","d"," ","a"," ","b">>,
    <<"h","e","l","l","o">>,
    <<"/","b","o","t"," ","h","o","l","a">>,
    <<"/","b","o","t"," ","-","P","i","n","g","\t"," ","x">> }

RECURSIVE TextsUpTo(_)
TextsUpTo(n) ==
  IF n = 0 THEN { EmptyStr }
  ELSE LET shorter == TextsUpTo(n - 1)
       IN  shorter \cup { t \o k : t \in shorter, k \in Tokens }

Texts == TextsUpTo(MaxTokens) \cup ExampleTexts

\* Prefixes a MessageFilter can be built with (an empty one is refused).
Prefixes == { DefaultPrefix, <<"!">> }

programVars ==
  << pc, sessionVars, exitVars, surfaceVars, scanVars, dispatchVars, simulation_mode,
     has_api_key >>

UnitInit ==
  /\ ProgramInit
  /\ ~simulation_mode
  /\ has_api_key
  /\ unit_pc = "call_parse"
  /\ arg_prefix \in Prefixes
  /\ arg_text \in Texts
  /\ ret_parsed = NoneV
  /\ ret_reply = EmptyStr

\* parsed = message_filter.parse(message)
ParseCall ==
  /\ unit_pc = "call_parse"
  /\ ret_parsed' = parse(arg_prefix, arg_text)
  /\ unit_pc' = IF ret_parsed' # NoneV /\ ret_parsed'[1].is_command /\ ret_parsed'[1].command # NoneV
                THEN "call_handle"
                ELSE "done"
  /\ UNCHANGED << arg_prefix, arg_text, ret_reply, programVars >>

\* response = handler.handle(parsed.command)
HandleCall ==
  /\ unit_pc = "call_handle"
  /\ ret_reply' = handle(arg_prefix, ret_parsed[1].command[1])
  /\ unit_pc' = "done"
  /\ UNCHANGED << arg_prefix, arg_text, ret_parsed, programVars >>

UnitNext == ParseCall \/ HandleCall

UnitSpec == UnitInit /\ [][UnitNext]_vars

\* The specification for liveness: the process is one thread whose waits are
\* all bounded, so it keeps stepping; the environment delivers the interrupt
\* and at most LiveMaxArrivals bubbles.
LiveArrive == arrivals < LiveMaxArrivals /\ Arrive

LiveNext == Step \/ Interrupt \/ LiveArrive

LiveSpec == Init /\ [][LiveNext]_vars /\ WF_vars(Step)

(***************************************************************************)
(* Properties.                                                             *)
(***************************************************************************)
ExitPcs == {"kb_handler", "final_saving", "exited"}

SendingPcs ==
  {"send_input", "send_type", "send_typing", "send_button", "send_click", "send_enter"}

\* C1: a response is posted into the conversation its message was read from:
\* while send_message works on the response to messages[mi], the open chat is
\* the chat that message was read in (the user having opened no chat himself).
C1_ReplyToSameChat ==
  (pc \in SendingPcs /\ focuses = 0) => active = messages[mi].src

\* C2: a bubble is appended to a cycle's result at most once, however often
\* and after whatever other reads it is read again.
C2_ForwardedOnce == \A c \in Chats : fwd[c] <= 1

\* C3: once KeyboardInterrupt has been delivered inside the loop, control is in
\* the except / finally clauses or the process has ended: no further step of a
\* cycle is taken and no cycle is started.
C3_InterruptExits == intrInCycle => pc \in ExitPcs

\* C4: an exception raised while chat i is processed is caught at that chat's
\* boundary: the bucket is left as it was, the loop goes on with chat i + 1
\* (or, past the last chat, with the active-chat read), and when
\* poll_new_messages returns every chat was gone through, the active-chat read
\* was made and no message stems from a chat that faulted.
C4_ChatFaultContained ==
  /\ [](pc = "poll_return" =>
          /\ idx = Len(unread_chats) + 1
          /\ activeReads = 1
          /\ \A k \in 1..Len(messages) : messages[k].via \notin faulted)
  /\ [][(pc = "chat_except" /\ pc' \notin ExitPcs) =>
          /\ messages' = messages
          /\ idx' = idx + 1
          /\ pc' = IF idx < Len(unread_chats) THEN "chat_click" ELSE "lm_container"
          /\ activeReads' = IF idx < Len(unread_chats) THEN 0 ELSE 1]_vars

\* A cycle over two unread chats returns: the first chat faulted, the second
\* one was read and its message is in the result.
C4_Witness ==
  /\ pc = "poll_return"
  /\ Len(unread_chats) = 2
  /\ faulted = {1}
  /\ \E k \in 1..Len(messages) : messages[k].via = 2

\* Positions at which a fault is being absorbed: the except clause at the chat
\* boundary, send_message about to return False (simulation mode, input region
\* not found), the Enter fallback for a missing send control, and the except
\* clause of call_ai.
AbsorbPcs == {"chat_except", "send_simulated", "send_no_input", "ai_except"}

FaultPcs == AbsorbPcs \cup {"send_enter"}

\* C5: a scan fault, a send fault and an AI failure do not end the loop: the
\* step that absorbs one stays in the loop (only the interrupt leaves it from
\* there), and after any of them the next cycle starts unless the interrupt or
\* a fault escaping the loop ends the process, which are the only two ways the
\* process ends once the loop runs.
C5_FaultsKeepLoopAlive ==
  /\ [][(pc \in AbsorbPcs /\ pc' \notin LoopPcs) =>
          (pc' = "kb_handler" /\ intrInCycle')]_vars
  /\ [](pc = "final_saving" => (pending = "exc" \/ intrInCycle))
  /\ [](pc = "exited" /\ saveCalls = 2 => exitCause \in {"interrupt", "fatal"})
  /\ (pc \in FaultPcs) ~>
       (pc = "loop_top" \/ (pc = "exited" /\ exitCause \in {"interrupt", "fatal"}))

\* A cycle in which a chat faulted is over and the loop is about to start the
\* next one.
C5_Witness == pc = "loop_top" /\ faulted # {} /\ ~intrInCycle

C7_TimeoutWithinTolerance ==
  exitCause = "login_timeout" =>
    (elapsed >= login_timeout /\ elapsed <= login_timeout + session_poll_interval)

\* C8: the cache always holds the text of the most recent successful read, and
\* a read is emitted (appended to the bucket, with its text) exactly when its
\* text differs from that of the successful read before it; nothing else
\* appends to the bucket.
C8_DedupByLastRead ==
  /\ [](last_seen = lastRead)
  /\ [][(pc = "lm_bubbles" /\ pc' \notin ExitPcs) =>
          IF lastRead' # lastRead
          THEN /\ Len(messages') = Len(messages) + 1
               /\ SubSeq(messages', 1, Len(messages)) = messages
               /\ Some(messages'[Len(messages')].text) = lastRead'
          ELSE messages' = messages]_vars
  /\ [][pc # "lm_bubbles" => (messages' = messages \/ messages' = << >>)]_vars

\* Two unread chats showed the same text one after the other: the first read
\* was emitted, the second was not.
C8_Witness ==
  /\ pc = "poll_return"
  /\ Len(unread_chats) = 2
  /\ faulted = {}
  /\ Len(messages) = 1
  /\ messages[1].via = 1
  /\ lastBubble[unread_chats[1]] = lastBubble[unread_chats[2]]
  /\ lastBubble[unread_chats[1]] # NoneV
  /\ last_seen = Some(lastBubble[unread_chats[1]][1].text)

\* C9: the exit status is 0 exactly when the interrupt ended the run.
C9_ExitStatus ==
  pc = "exited" => ((exitStatus = 0) <=> (exitCause = "interrupt"))

\* C10: every way out of the loop makes exactly one save_storage_state call,
\* after the last step of the cycle and before the process ends, and a save is
\* made only once ensure_session has succeeded, never after a failed login.
C10_SavePoints ==
  /\ [](saveCalls > 0 => sessionState = "Authenticated")
  /\ [](pc \in LoopPcs \cup {"save_initial", "kb_handler"} => saveCalls = 1)
  /\ [](pc = "final_saving" => saveCalls = 2)
  /\ [](pc = "exited" /\ exitStatus = 0 => saveCalls = 2)
  /\ [][(pc \in LoopPcs \cup {"kb_handler"} /\ pc' \notin LoopPcs \cup {"kb_handler"}) =>
          (pc' = "final_saving" /\ saveCalls' = saveCalls + 1)]_vars
  /\ [][pc = "final_saving" => saveCalls' = saveCalls]_vars

\* The loop was left by an escaping fault and the process has ended after the
\* final save.
C10_Witness == pc = "exited" /\ saveCalls = 2 /\ exitCause = "fatal"

\* The page operations a sequence of send_message operations holds.
OpsOf(ops) == { ops[i] : i \in 1..Len(ops) }

\* C11: in simulation mode send_message makes no page operation (no locate,
\* fill, type, click or key press) and returns False, whatever the text: its
\* one step leaves the page and the deduplication cache as they are and hands
\* control back to the loop with the result False.
C11_SimulationNoSurface ==
  /\ [](simulation_mode =>
          /\ sendOps = << >>
          /\ sendResult # "true"
          /\ pc \notin SendingPcs \cup {"send_no_input"})
  /\ [](~simulation_mode => pc # "send_simulated")
  /\ [][(pc = "send_simulated" /\ pc' \notin ExitPcs) =>
          /\ pc' = "msg_next"
          /\ sendResult' = "false"
          /\ sendOps' = << >>
          /\ surfaceVars' = surfaceVars
          /\ cacheVars' = cacheVars]_vars

\* In simulation mode a send_message call for the quota apology returned False.
C11_Witness ==
  /\ simulation_mode
  /\ pc = "msg_next"
  /\ sendCalls = 1
  /\ sendResult = "false"
  /\ response = QuotaText

\* C12: outside simulation mode a send_message call that returned False made
\* no operation but the search for the input; one that returned True cleared
\* and typed the text, searched the send control and made exactly one
\* submission, a click or an Enter keystroke; no call makes both a click and
\* an Enter keystroke.
C12_OneSubmission ==
  ~simulation_mode =>
    /\ ~({"click", "press"} \subseteq OpsOf(sendOps))
    /\ sendResult = "false" => sendOps = << "locate_input" >>
    /\ sendResult = "true" =>
          \/ sendOps = << "locate_input", "fill", "type", "locate_send", "click" >>
          \/ sendOps = << "locate_input", "fill", "type", "locate_send", "press" >>

(***************************************************************************)
(* The grammar of the parser as documented, stated on positions of the     *)
(* text: the tokens are the maximal runs of characters that are not white  *)
(* space, the payload reaches from the first to the last of them.          *)
(***************************************************************************)
RefIsSpace(c) == c \in {" ", "\t", "\n", "\r"}

RefAddressed(prefix, text) ==
  /\ Len(text) >= Len(prefix)
  /\ \A i \in 1..Len(prefix) : text[i] = prefix[i]

RefRest(prefix, text) == [i \in 1..(Len(text) - Len(prefix)) |-> text[Len(prefix) + i]]

RefInk(r) == { i \in 1..Len(r) : ~RefIsSpace(r[i]) }

RefMin(S) == CHOOSE x \in S : \A y \in S : x <= y

RefMax(S) == CHOOSE x \in S : \A y \in S : x >= y

RefSlice(r, a, b) == [i \in 1..(b - a + 1) |-> r[a + i - 1]]

RefPayload(r) ==
  IF RefInk(r) = {} THEN << >> ELSE RefSlice(r, RefMin(RefInk(r)), RefMax(RefInk(r)))

RefStarts(r) == { i \in RefInk(r) : i = 1 \/ RefIsSpace(r[i - 1]) }

RefEnd(r, i) == RefMax({ j \in i..Len(r) : \A k \in i..j : ~RefIsSpace(r[k]) })

RefTokens(r) ==
  [k \in 1..Cardinality(RefStarts(r)) |->
     LET i == CHOOSE x \in RefStarts(r) :
                Cardinality({ y \in RefStarts(r) : y < x }) = k - 1
     IN  RefSlice(r, i, RefEnd(r, i))]

RefParse(prefix, text) ==
  IF ~RefAddressed(prefix, text) THEN [tag |-> "none"]
  ELSE LET r == RefRest(prefix, text)
           toks == RefTokens(r)
       IN  IF Len(toks) = 0 THEN [tag |-> "none"]
           ELSE IF toks[1][1] = "-"
           THEN [tag |-> "command",
                 name |-> [i \in 1..(Len(toks[1]) - 1) |-> LowerChar(toks[1][i + 1])],
                 args |-> [k \in 1..(Len(toks) - 1) |-> toks[k + 1]]]
           ELSE [tag |-> "query", value |-> RefPayload(r)]

RefMatches(res, ref) ==
  IF ref.tag = "none" THEN res = NoneV
  ELSE /\ res # NoneV
       /\ IF ref.tag = "command"
          THEN /\ res[1].is_command = TRUE
               /\ res[1].command = << [name |-> ref.name, args |-> ref.args] >>
               /\ res[1].query = NoneV
          ELSE /\ res[1].is_command = FALSE
               /\ res[1].command = NoneV
               /\ res[1].query = << ref.value >>

\* C13: for every prefix and text, parse returns what the documented grammar
\* gives: none for a text that does not start with the prefix or has nothing
\* but white space after it; a command (name: first token without its '-',
\* lower-cased; args: the other tokens in order) when the first token starts
\* with '-'; else a query holding the whole trimmed payload.  With prefix /bot:
\* "/bot -cmd a b" is command cmd [a, b], "hello" is none, "/bot" is none,
\* "/bot hola" is query "hola".
C13_ParseGrammar ==
  unit_pc \in {"call_handle", "done"} =>
    /\ RefMatches(ret_parsed, RefParse(arg_prefix, arg_text))
    /\ arg_prefix = <<"/","b","o","t">> =>
         /\ arg_text = <<"/","b","o","t"," ","-","c","m","d"," ","a"," ","b">> =>
              ret_parsed = << [is_command |-> TRUE,
                               command |-> << [name |-> <<"c","m","d">>,
                                               args |-> << <<"a">>, <<"b">> >>] >>,
                               query |-> << >>] >>
         /\ arg_text = <<"h","e","l","l","o">> => ret_parsed = << >>
         /\ arg_text = <<"/","b","o","t">> => ret_parsed = << >>
         /\ arg_text = <<"/","b","o","t"," ","h","o","l","a">> =>
              ret_parsed = << [is_command |-> FALSE, command |-> << >>,
                               query |-> << <<"h","o","l","a">> >>] >>

\* parse has returned a command with an upper-case letter in its first token
\* and arguments after it.
C13_Witness ==
  /\ unit_pc = "done"
  /\ arg_text = <<"/","b","o","t"," ","-","P","i","n","g","\t"," ","x">>
  /\ ret_parsed # NoneV
  /\ ret_parsed[1].command = << [name |-> <<"p","i","n","g">>, args |-> << <<"x">> >>] >>

\* C14: a ParsedCommand returned by parse has a name that is not empty and is
\* in lower case, and a ParsedMessage returned holds a command or a query, one
\* of the two and not both.
C14_CommandWellFormed ==
  (unit_pc \in {"call_handle", "done"} /\ ret_parsed # NoneV) =>
    /\ (ret_parsed[1].command # NoneV) # (ret_parsed[1].query # NoneV)
    /\ ret_parsed[1].is_command = (ret_parsed[1].command # NoneV)
    /\ ret_parsed[1].command # NoneV =>
         /\ ret_parsed[1].command[1].name # << >>
         /\ \A i \in 1..Len(ret_parsed[1].command[1].name) :
              ret_parsed[1].command[1].name[i] = LowerChar(ret_parsed[1].command[1].name[i])

\* The lines of a text, as separated by the newline character.
RECURSIVE RefLinesFrom(_, _, _)
RefLinesFrom(s, cur, acc) ==
  IF s = << >> THEN Append(acc, cur)
  ELSE IF Head(s) = "\n" THEN RefLinesFrom(Tail(s), << >>, Append(acc, cur))
  ELSE RefLinesFrom(Tail(s), Append(cur, Head(s)), acc)

RefLines(s) == RefLinesFrom(s, << >>, << >>)

\* C15: handle returns a text for every command name: for help the header
\* line and then one line "- <prefix> <name>" for each of help and ping, once
\* each and in that (lexicographic) order; for ping the text pong; for any
\* other name the text Unknown command '<name>'. Try '<prefix> help'.
C15_HandleReplies ==
  unit_pc = "done" /\ ret_parsed # NoneV /\ ret_parsed[1].command # NoneV =>
    LET name == ret_parsed[1].command[1].name
    IN  IF name = <<"h","e","l","p">>
        THEN RefLines(ret_reply) =
               << <<"A","v","a","i","l","a","b","l","e"," ","c","o","m","m","a","n","d","s",":">>,
                  <<"-"," ">> \o arg_prefix \o <<" ","h","e","l","p">>,
                  <<"-"," ">> \o arg_prefix \o <<" ","p","i","n","g">> >>
        ELSE IF name = <<"p","i","n","g">>
        THEN ret_reply = <<"p","o","n","g">>
        ELSE ret_reply =
               <<"U","n","k","n","o","w","n"," ","c","o","m","m","a","n","d"," ","'">>
                 \o name \o <<"'","."," ","T","r","y"," ","'">> \o arg_prefix
                 \o <<" ","h","e","l","p","'",".">>

\* handle has answered the help command of a filter built with the prefix !.
C15_Witness ==
  /\ unit_pc = "done"
  /\ arg_prefix = <<"!">>
  /\ ret_parsed # NoneV
  /\ ret_parsed[1].command # NoneV
  /\ ret_parsed[1].command[1].name = <<"h","e","l","p">>
  /\ Len(RefLines(ret_reply)) = 3

\* The failure text e carries the rate-limit code.
SignalsRateLimit(e) ==
  \E i \in 1..(Len(e) - 2) : e[i] = "4" /\ e[i + 1] = "2" /\ e[i + 2] = "9"

\* C16: a failure of the completion backend does not leave call_ai as an
\* exception: the step that handles it hands the loop a text for the same
\* message, the rate-limit apology when the failure text carries the code 429
\* and the generic apology with the failure text otherwise; without a
\* credential call_ai answers with the configuration error and the backend is
\* not called; and from the response the loop goes on to send_message or to
\* the next message.
C16_AiFailureContained ==
  /\ [][(pc = "ai_except" /\ pc' \notin ExitPcs) =>
          /\ pc' = "respond"
          /\ mi' = mi
          /\ response' = IF SignalsRateLimit(response)
                         THEN QuotaText
                         ELSE SorryHead \o response]_vars
  /\ [][(pc = "call_ai" /\ ~has_api_key /\ pc' \notin ExitPcs) =>
          /\ pc' = "respond"
          /\ response' = NoKeyText
          /\ ~aiCalled']_vars
  /\ [](aiCalled => has_api_key)
  /\ [](pc = "ai_except" => aiCalled)
  /\ [][(pc = "respond" /\ pc' \notin ExitPcs) =>
          pc' \in {"send_simulated", "send_input", "msg_next"}]_vars

\* The backend failed with a rate-limit error and call_ai has returned the
\* apology, which the loop is about to send.
C16_Witness ==
  /\ pc = "respond"
  /\ aiCalled
  /\ response = QuotaText

ReadPcs == {"lm_container", "lm_scroll", "lm_bubbles"}

\* C17: a scan cycle that returns has made exactly one read of the active
\* chat; that read starts only when every unread chat has been gone through
\* (at once when the list is empty), whatever faulted before, and what it
\* reads is appended and cached by the rule of the per-chat reads: appended
\* when its text differs from the cached one, which it then replaces, and
\* dropped otherwise.
C17_OneActiveRead ==
  /\ [](pc = "poll_return" => activeReads = 1)
  /\ [](activeReads <= 1)
  /\ []((pc \in ScanPcs /\ reader = "active") =>
          /\ pc \in ReadPcs
          /\ activeReads = 1
          /\ idx = Len(unread_chats) + 1)
  /\ []((pc \in ScanPcs /\ reader = "chat") => (activeReads = 0 /\ idx <= Len(unread_chats) + 1))
  /\ [][(pc \in ReadPcs /\ reader = "active" /\ pc' \notin ExitPcs \cup ReadPcs) =>
          /\ pc' = "poll_return"
          /\ IF messages' # messages
             THEN /\ messages' = Append(messages, messages'[Len(messages')])
                  /\ Some(messages'[Len(messages')].text) # last_seen
                  /\ last_seen' = Some(messages'[Len(messages')].text)
                  /\ messages'[Len(messages')].via = 0
             ELSE last_seen' = last_seen]_vars

\* A cycle that found no unread chat returns with the message it read in the
\* active chat.
C17_Witness ==
  /\ pc = "poll_return"
  /\ unread_chats = << >>
  /\ activeReads = 1
  /\ Len(messages) = 1
  /\ messages[1].via = 0

\* C18: within a cycle the unread chats are opened in the order the scan
\* listed them, one after the other; the result holds the messages in that
\* order, the message of the active-chat read last; and the cache is written
\* by the read steps alone, each with the text it has just read, so that a
\* read is compared with the reads made before it and with nothing else.
C18_ProgramOrder ==
  /\ [](\A j, k \in 1..Len(messages) :
          j < k => /\ messages[j].via # 0
                   /\ (messages[k].via = 0 \/ messages[j].via < messages[k].via))
  /\ [](\A k \in 1..Len(messages) :
          messages[k].via \in 0..Len(unread_chats) /\ messages[k].via < idx)
  /\ [][(pc = "chat_click" /\ pc' = "chat_settle") => active' = unread_chats[idx]]_vars
  /\ [][idx' # idx => (idx' = idx + 1 \/ idx' = 1)]_vars
  /\ [][(unread_chats' # unread_chats) =>
          (pc = "collect_unread" \/ unread_chats' = << >>)]_vars
  /\ [][last_seen' # last_seen =>
          /\ pc = "lm_bubbles"
          /\ messages' # << >>
          /\ last_seen' = Some(messages'[Len(messages')].text)
          /\ Len(messages') = Len(messages) + 1]_vars
  /\ [](last_seen = lastRead)

\* Two unread chats were read in the order listed and the active-chat read
\* added a third message after them.
C18_Witness ==
  /\ pc = "poll_return"
  /\ Len(unread_chats) = 2
  /\ Len(messages) = 3
  /\ messages[1].via = 1
  /\ messages[2].via = 2
  /\ messages[3].via = 0

AfterLoginPcs == LoopPcs \cup {"save_initial", "kb_handler", "final_saving"}

\* C19: ensure_session is called once, at the start and never again; nothing
\* of the loop (no scan, no read, no dispatch, no send_message) happens before
\* it has returned with the authenticated marker confirmed; and from then on
\* the session state stays what it is.
C19_SessionOnceBeforeLoop ==
  /\ [](ensureCalls <= 1)
  /\ [](pc \in AfterLoginPcs =>
          /\ ensureCalls = 1
          /\ sessionState = "Authenticated"
          /\ observed = "confirm")
  /\ [](sessionState # "Authenticated" =>
          /\ pc \notin AfterLoginPcs
          /\ messages = << >>
          /\ last_seen = NoneV
          /\ activeReads = 0
          /\ sendCalls = 0
          /\ ~aiCalled
          /\ saveCalls = 0)
  /\ [][ensureCalls' # ensureCalls =>
          (pc = "ensure_session" /\ ensureCalls = 0 /\ sessionState = "Unknown")]_vars
  /\ [][(pc \in AfterLoginPcs) => sessionState' = sessionState]_vars
  /\ [][sessionState = "Authenticated" => sessionState' = "Authenticated"]_vars

\* The loop has sent a reply, after the one call of ensure_session.
C19_Witness ==
  /\ pc = "msg_next"
  /\ sendResult = "true"
  /\ ensureCalls = 1
  /\ sessionState = "Authenticated"

SendCallPcs == SendingPcs \cup {"send_simulated", "send_no_input"}

\* C20: the loop goes through the scan result in order and calls send_message
\* at most once for a message: not at all when parse returns none or the
\* response is empty, once when handle or call_ai gave a non-empty response;
\* when the call returns, with True or with False, the loop is at the next
\* message, and a call that returned False leaves nothing behind (result,
\* cache and page as they were) from which it could be made again.
C20_OneSendPerMessage ==
  /\ [](sendCalls <= 1)
  /\ []((pc \in SendCallPcs) =>
          /\ sendCalls = 1
          /\ mi \in 1..Len(messages)
          /\ parse(command_prefix, messages[mi].text) # NoneV
          /\ response # EmptyStr)
  /\ [][sendCalls' = sendCalls + 1 =>
          (pc = "respond" /\ pc' \in SendCallPcs /\ mi' = mi)]_vars
  /\ [][(pc = "respond" /\ pc' \notin ExitPcs) =>
          IF response # EmptyStr
          THEN sendCalls' = 1 /\ pc' \in SendCallPcs
          ELSE sendCalls' = 0 /\ pc' = "msg_next" /\ mi' = mi + 1]_vars
  /\ [][(pc = "msg_next" /\ mi <= Len(messages) /\ pc' \notin ExitPcs) =>
          IF parse(command_prefix, messages[mi].text) = NoneV
          THEN pc' = "msg_next" /\ mi' = mi + 1 /\ sendCalls' = 0
          ELSE pc' \in {"respond", "call_ai"} /\ mi' = mi]_vars
  /\ [][mi' # mi => (mi' = mi + 1 \/ mi' = 1)]_vars
  /\ [][(pc \in SendCallPcs /\ pc' \notin ExitPcs \cup SendCallPcs) =>
          /\ pc' = "msg_next"
          /\ mi' = mi + 1
          /\ sendCalls' = 1
          /\ sendResult' \in {"true", "false"}]_vars
  /\ [][(sendResult' = "false" /\ sendResult # "false") =>
          /\ pc' = "msg_next"
          /\ mi' = mi + 1
          /\ messages' = messages
          /\ cacheVars' = cacheVars
          /\ surfaceVars' = surfaceVars]_vars

\* Outside simulation mode the one send_message call for the first message
\* of a result returned False and the loop is at the second message.
C20_Witness ==
  /\ ~simulation_mode
  /\ pc = "msg_next"
  /\ mi = 2
  /\ sendCalls = 1
  /\ sendResult = "false"

\* C21: send_message is never called for a message the bot posted itself:
\* whatever text handle or the completion backend returned, the reply read
\* back by a later scan (from_me true) is not answered.
C21_NoReplyToOwnReply ==
  (pc \in SendCallPcs /\ mi \in 1..Len(messages)) => ~messages[mi].from_me

\* The command texts the help response of a handler built with prefix lists:
\* its lines after the header, each without the leading "- ".
Advertised(prefix) ==
  LET lines == RefLines(handle(prefix, ParsedCommand(HelpName, << >>)))
  IN  { Tail(Tail(lines[k])) : k \in 2..Len(lines) }

\* The hint of the unknown-command reply: the text between "Try '" and "'.".
AdvertisedHint(prefix) ==
  LET reply == handle(prefix, ParsedCommand(<<"x">>, << >>))
      from == Len(reply) - Len(prefix) - Len(<<" ","h","e","l","p","'",".">>) + 1
  IN  SubSeq(reply, from, Len(reply) - 2)

\* C22: a text the dispatcher advertises, "<prefix> <n>" of a help line or
\* the hint "<prefix> help", when it arrives as a message is parsed as the
\* command n and goes to handle, not to the completion backend as a query.
C22_AdvertisedSyntaxParses ==
  (unit_pc \in {"call_handle", "done"}
     /\ arg_text \in Advertised(arg_prefix) \cup { AdvertisedHint(arg_prefix) }) =>
    /\ ret_parsed # NoneV
    /\ ret_parsed[1].is_command
    /\ ret_parsed[1].command # NoneV
    /\ ret_parsed[1].command[1].name =
         SubSeq(arg_text, Len(arg_prefix) + 2, Len(arg_text))

====
